---- MODULE Spec2Model ----
(***************************************************************************)
(* A model of build.py, the Vayu cross-platform build script: argument     *)
(* dispatch in main(), the prerequisite check (check_tool, check_vcpkg),   *)
(* the command runner (run_command), the Spinner thread, the engine and    *)
(* app stages, the test-only mode and the version bump (bump_version).     *)
(*                                                                         *)
(* Text is modelled as a sequence of one-character strings, so that        *)
(* formatting (str(int)) and parsing (re.match + int()) are computed.      *)
(***************************************************************************)
EXTENDS Integers, Sequences, FiniteSets, TLC

(***************************************************************************)
(* Bounds of the model (not program constants).                            *)
(***************************************************************************)
\* the largest version component of the files on disk
MaxComponent == 10
\* at most this many installers are found by one glob of app/release
MaxInstallers == 1
\* a failing command prints at most MaxExtraLines lines beyond TailLines
MaxExtraLines == 2

\* the most threads of one Spinner object besides the one it names
MaxExtra == 2

\* the most final lines stop() writes for one Spinner object
MaxFinal == 2

\* the most blank lines before and after the output of a failing command
MaxBlank == 2

\* the most runs of the tool one after the other
MaxRuns == 2

(***************************************************************************)
(* Program constants.                                                      *)
(***************************************************************************)
\* print_command_error shows the last 25 lines
TailLines == 25
\* len(Style.SPINNER)
NumFrames == 10
\* sys.exit(1) in print_error and in main
ExitFailure == 1
\* the status of a Python process that ends by an unhandled KeyboardInterrupt
ExitSigint == 130

None == "None"

\* an absent text (an option not given, a file not on disk)
NoText == <<"<none>">>

(***************************************************************************)
(* Text: str(), str.strip(), int(), and the regular expression of          *)
(* parse_version.                                                          *)
(***************************************************************************)
DigitChars == <<"0", "1", "2", "3", "4", "5", "6", "7", "8", "9">>

Digits == {DigitChars[i] : i \in 1..10}

Whitespace == {" ", "\n"}

\* the value of one decimal digit
DigitVal(c) == (CHOOSE i \in 1..10 : DigitChars[i] = c) - 1

\* str(n) for a non-negative int: decimal, no leading zeros
RECURSIVE str(_)
str(n) == IF n < 10 THEN <<DigitChars[n + 1]>>
          ELSE str(n \div 10) \o <<DigitChars[(n % 10) + 1]>>

\* int(s) for a non-empty string of decimal digits (leading zeros allowed)
RECURSIVE int(_)
int(s) == IF Len(s) = 1 THEN DigitVal(s[1])
          ELSE 10 * int(SubSeq(s, 1, Len(s) - 1)) + DigitVal(s[Len(s)])

RECURSIVE lstrip(_)
lstrip(s) == IF s # <<>> /\ s[1] \in Whitespace THEN lstrip(Tail(s)) ELSE s

RECURSIVE rstrip(_)
rstrip(s) == IF s # <<>> /\ s[Len(s)] \in Whitespace
             THEN rstrip(SubSeq(s, 1, Len(s) - 1)) ELSE s

\* str.strip()
strip(s) == rstrip(lstrip(s))

Dots(s) == {i \in 1..Len(s) : s[i] = "."}

\* re.match(r'^(\d+)\.(\d+)\.(\d+)$', s): three non-empty digit groups
\* separated by exactly two dots; "$" also matches before one final newline
ChompNewline(s) == IF s # <<>> /\ s[Len(s)] = "\n"
                   THEN SubSeq(s, 1, Len(s) - 1) ELSE s

MatchXYZ(t) ==
    LET s == ChompNewline(t)
        d == Dots(s)
    IN  /\ Cardinality(d) = 2
        /\ \A i \in (1..Len(s)) \ d : s[i] \in Digits
        /\ LET d1 == CHOOSE i \in d : \A j \in d : i <= j
               d2 == CHOOSE i \in d : \A j \in d : i >= j
           IN  d1 > 1 /\ d2 > d1 + 1 /\ d2 < Len(s)

\* the three groups of a matching string
Groups(t) ==
    LET s  == ChompNewline(t)
        d  == Dots(s)
        d1 == CHOOSE i \in d : \A j \in d : i <= j
        d2 == CHOOSE i \in d : \A j \in d : i >= j
    IN  <<SubSeq(s, 1, d1 - 1), SubSeq(s, d1 + 1, d2 - 1), SubSeq(s, d2 + 1, Len(s))>>

\* parse_version accepts version_str: the match succeeds on the stripped text
parse_ok(version_str) == MatchXYZ(strip(version_str))

\* parse_version(version_str) when it is accepted: (major, minor, patch)
parse_version(version_str) ==
    LET g == Groups(strip(version_str))
    IN  <<int(g[1]), int(g[2]), int(g[3])>>

\* f"{a}.{b}.{c}"
fmt3(a, b, c) == str(a) \o <<".">> \o str(b) \o <<".">> \o str(c)

Major == <<"m", "a", "j", "o", "r">>
Minor == <<"m", "i", "n", "o", "r">>
Patch == <<"p", "a", "t", "c", "h">>

\* a variant in which a keyword leaves the lower components as they were
new_version_keeping_lower(bump_type, major, minor, patch) ==
    IF bump_type \in {Major, Minor, Patch}
    THEN IF bump_type = Major THEN fmt3(major + 1, minor, patch)
         ELSE IF bump_type = Minor THEN fmt3(major, minor + 1, patch)
         ELSE fmt3(major, minor, patch + 1)
    ELSE bump_type

\* a variant in which a literal target is parsed and formatted again
new_version_normalised(bump_type, major, minor, patch) ==
    IF bump_type \in {Major, Minor, Patch}
    THEN IF bump_type = Major THEN fmt3(major + 1, 0, 0)
         ELSE IF bump_type = Minor THEN fmt3(major, minor + 1, 0)
         ELSE fmt3(major, minor, patch + 1)
    ELSE IF parse_ok(bump_type)
    THEN LET t == parse_version(bump_type) IN fmt3(t[1], t[2], t[3])
    ELSE bump_type

\* bump_version, "Calculate new version": the new version string
new_version_of(bump_type, major, minor, patch) ==
    IF bump_type \in {Major, Minor, Patch}
    THEN IF bump_type = Major THEN fmt3(major + 1, 0, 0)
         ELSE IF bump_type = Minor THEN fmt3(major, minor + 1, 0)
         ELSE fmt3(major, minor, patch + 1)
    ELSE bump_type

(***************************************************************************)
(* The state of one run of build.py.                                       *)
(***************************************************************************)
VARIABLES
    args,             \* argparse's namespace (line 1016)
    system,           \* platform.system()
    files,            \* the five files bump_version reads and rewrites
    disk,             \* what the run found on disk where it looked ("?": not looked)
    VERBOSE,          \* global VERBOSE
    CMAKE_PATH,       \* global CMAKE_PATH
    PNPM_PATH,        \* global PNPM_PATH
    VCPKG_ROOT,       \* os.environ["VCPKG_ROOT"] as set by check_prerequisites
    pc,               \* where the main thread is
    step,             \* the sub-stage of build_engine / build_app under way
    stage,            \* the pipeline state the main thread is in
    results,          \* check_prerequisites: results
    ret,              \* what the last command returned: success, output
    engine_binary,    \* main: engine_binary (None or a path)
    engine_exists,    \* whether the engine binary is on disk ("?": not looked at yet)
    artifacts,        \* get_artifacts: the labels collected
    spinner,          \* the Spinner object in scope and its thread
    spawned,          \* a subprocess has been started (subprocess.run got that far)
    probe,            \* check_tool: how the probe of the tool last checked ended
    commands,         \* the argv of every command run_command / run_tests_only ran
    report,           \* what print_command_error last printed
    error,            \* the message of the fatal error, if any
    exit_code,        \* the status the process ends with
    unwound,          \* the run ended by an exception nobody caught (a traceback)
    interrupted,      \* a KeyboardInterrupt was raised in the main thread
    current_version,  \* bump_version: current_version
    new_version,      \* bump_version: new_version
    earlier           \* the runs of the tool before this one: what each left

vars == <<args, system, files, disk, VERBOSE, CMAKE_PATH, PNPM_PATH, VCPKG_ROOT, pc, step,
          stage, results, ret, engine_binary, engine_exists, artifacts, spinner,
          spawned, probe, commands, report, error, exit_code, unwound,
          interrupted, current_version, new_version, earlier>>

\* what a run is given: its arguments, the platform, and the runs before it
inputs  == <<args, system, earlier>>
globals == <<VERBOSE, CMAKE_PATH, PNPM_PATH, VCPKG_ROOT>>
bumpv   == <<files, current_version, new_version>>
prereqv == <<results, probe>>
cmdv    == <<ret, commands, report, spawned>>
enginev == <<engine_binary, engine_exists, artifacts>>

(***************************************************************************)
(* main(): the values computed from the arguments (lines 1022-1042).       *)
(***************************************************************************)
\* Python truth of args.bump_version: neither None nor the empty string
bump_requested(a) == a.bump_version # NoText /\ a.bump_version # <<>>

\* a variant in which no run is a development run
dev_mode_never(a) == FALSE

\* dev_mode = args.dev or not args.prod
dev_mode_of(a) == a.dev \/ ~a.prod

\* a variant in which --app-only does not skip the engine
skip_engine_never(a) == FALSE

\* skip_engine = args.app_only
skip_engine_of(a) == a.app_only

\* a variant in which --engine-only does not skip the app
skip_app_never(a) == FALSE

\* skip_app = args.engine_only, forced to True by --test-only
skip_app_of(a) == a.engine_only \/ a.test_only

\* variants in which a combination of flags is let through
accepts_test_only_with_tests(a) == FALSE

accepts_engine_and_app(a) == FALSE

\* if args.test_only: if args.tests: print_error(...)
rejects_test_only_with_tests(a) == a.test_only /\ a.tests

\* if skip_engine and skip_app: print_error(...)
rejects_engine_and_app(a) == skip_engine_of(a) /\ skip_app_of(a)

\* detect_platform(): the preset prefix, None on an unsupported platform
preset_prefix_of(sys) ==
    CASE sys = "Windows" -> "windows"
      [] sys = "Linux"   -> "linux"
      [] sys = "Darwin"  -> "macos"
      [] OTHER           -> None

\* mode_suffix = "dev" if dev_mode else "prod"
mode_suffix_of(a) == IF dev_mode_of(a) THEN "dev" ELSE "prod"

\* preset = f"{preset_prefix}-{mode_suffix}"
preset_of(sys, a) ==
    CASE preset_prefix_of(sys) = "windows" /\ mode_suffix_of(a) = "dev"  -> "windows-dev"
      [] preset_prefix_of(sys) = "windows" /\ mode_suffix_of(a) = "prod" -> "windows-prod"
      [] preset_prefix_of(sys) = "linux"   /\ mode_suffix_of(a) = "dev"  -> "linux-dev"
      [] preset_prefix_of(sys) = "linux"   /\ mode_suffix_of(a) = "prod" -> "linux-prod"
      [] preset_prefix_of(sys) = "macos"   /\ mode_suffix_of(a) = "dev"  -> "macos-dev"
      [] preset_prefix_of(sys) = "macos"   /\ mode_suffix_of(a) = "prod" -> "macos-prod"

\* "dev" in preset
is_dev_preset(preset) == preset \in {"windows-dev", "linux-dev", "macos-dev"}

(***************************************************************************)
(* The inputs of a run.                                                    *)
(***************************************************************************)
Systems == {"Windows", "Linux", "Darwin", "Other"}

\* every combination of the nine flags, with the given --bump-version values
ArgSet(bumps, dry_runs) ==
    [dev : BOOLEAN, prod : BOOLEAN, engine_only : BOOLEAN, app_only : BOOLEAN,
     clean : BOOLEAN, tests : BOOLEAN, test_only : BOOLEAN, verbose : BOOLEAN,
     dry_run : dry_runs, bump_version : bumps]

\* the components of the versions on disk: small ones, and those around the
\* step from one digit to two
Components == {0, 1} \cup (9..MaxComponent)

V(a, b, c) == fmt3(a, b, c)

\* texts that parse_version rejects
Malformed == { <<"1", ".", "2">>, <<"1", ".", "2", ".", "3", ".", "4">>,
               <<"v", "1", ".", "2", ".", "3">>, <<"1", ".", ".", "3">> }

\* literal versions given on the command line: plain, padded, with leading zeros
Literals == { V(9, 9, 9), V(1, 2, 3), V(0, 0, 0), <<" ">> \o V(1, 2, 3),
              <<"0", "1", ".", "0", "2", ".", "0", "3">> }

Keywords == {Major, Minor, Patch}

\* the four files besides VERSION, as what bump_version looks at in each:
\* whether it can be read, the text its pattern matches (NoText: no match),
\* and for the manifests whether json.loads accepts it
CMakeFile(v)   == [exists |-> TRUE, declared |-> v]
HeaderFile(t, v) == [exists |-> TRUE, major |-> str(t[1]), minor |-> str(t[2]),
                     patch |-> str(t[3]), string |-> v]
JsonFile(v)    == [exists |-> TRUE, valid |-> TRUE, version |-> v]

\* a project whose five files all carry version (a, b, c)
Project(a, b, c) ==
    [VERSION |-> V(a, b, c) \o <<"\n">>,
     cmake   |-> CMakeFile(V(a, b, c)),
     hpp     |-> HeaderFile(<<a, b, c>>, V(a, b, c)),
     vcpkg   |-> JsonFile(V(a, b, c)),
     package |-> JsonFile(V(a, b, c))]

\* the same project with one of its files damaged
Damaged(f, how) ==
    CASE how = "ok"            -> f
      [] how = "no_VERSION"    -> [f EXCEPT !.VERSION = NoText]
      [] how = "bad_VERSION"   -> [f EXCEPT !.VERSION = <<"1", ".", "2", "\n">>]
      [] how = "no_cmake"      -> [f EXCEPT !.cmake.exists = FALSE]
      [] how = "cmake_nomatch" -> [f EXCEPT !.cmake.declared = NoText]
      [] how = "no_hpp"        -> [f EXCEPT !.hpp.exists = FALSE]
      [] how = "no_vcpkg"      -> [f EXCEPT !.vcpkg.exists = FALSE]
      [] how = "bad_vcpkg"     -> [f EXCEPT !.vcpkg.valid = FALSE]
      [] how = "no_package"    -> [f EXCEPT !.package.exists = FALSE]
      [] how = "bad_package"   -> [f EXCEPT !.package.valid = FALSE]

Damages == {"ok", "no_VERSION", "bad_VERSION", "no_cmake", "cmake_nomatch", "no_hpp",
            "no_vcpkg", "bad_vcpkg", "no_package", "bad_package"}

NoSpinner == [running |-> FALSE, thread |-> "none", idx |-> 0, extra |-> 0,
              final |-> 0, orphans |-> 0]

NoReport == [printed |-> FALSE]

NoProbe == [name |-> None, outcome |-> None]

NoRet == [success |-> TRUE, output |-> <<>>]

NoError == [kind |-> None, detail |-> None]

NoDisk == [build_dir |-> "?", test_binary |-> "?", app_dir |-> "?", node_modules |-> "?"]

\* Path.exists() as recorded in disk
seen(exists) == IF exists THEN "yes" ELSE "no"

InitWith(argset, systems, fileset) ==
    /\ args \in argset
    /\ system \in systems
    /\ files \in fileset
    /\ disk = NoDisk
    /\ VERBOSE = FALSE
    /\ CMAKE_PATH = "cmake"
    /\ PNPM_PATH = "pnpm"
    /\ VCPKG_ROOT = None
    /\ pc = "main"
    /\ step = None
    /\ stage = "Idle"
    /\ results = <<>>
    /\ ret = NoRet
    /\ engine_binary = None
    /\ engine_exists = "?"
    /\ artifacts = <<>>
    /\ spinner = NoSpinner
    /\ spawned = FALSE
    /\ probe = NoProbe
    /\ commands = <<>>
    /\ report = NoReport
    /\ error = NoError
    /\ exit_code = 0
    /\ unwound = FALSE
    /\ interrupted = FALSE
    /\ current_version = NoText
    /\ new_version = NoText
    /\ earlier = <<>>

(***************************************************************************)
(* Leaving the run.                                                        *)
(***************************************************************************)
\* The tails below end an action: each sets pc, step, stage, exit_code, error
\* and unwound.  exit_code is the status the process would end with (0 until
\* something sets it); the process has ended when pc = "terminated".
ctl == <<pc, step, stage, exit_code, error, unwound>>

Goto(p, s) ==
    /\ pc' = p
    /\ step' = s
    /\ UNCHANGED <<stage, exit_code, error, unwound>>

\* print_error(message): print and sys.exit(1)
print_error(kind, detail) ==
    /\ error' = [kind |-> kind, detail |-> detail]
    /\ exit_code' = ExitFailure
    /\ stage' = "Failed"
    /\ pc' = "exiting"
    /\ UNCHANGED <<step, unwound>>

\* sys.exit(1) in main after a stage returned failure
sys_exit_1 ==
    /\ exit_code' = ExitFailure
    /\ stage' = "Failed"
    /\ pc' = "exiting"
    /\ UNCHANGED <<step, error, unwound>>

\* an exception that no handler catches: a traceback and the given status
uncaught(kind, status) ==
    /\ error' = [kind |-> kind, detail |-> None]
    /\ exit_code' = status
    /\ stage' = "Failed"
    /\ pc' = "exiting"
    /\ unwound' = TRUE
    /\ UNCHANGED step

\* main returns: the process ends with status 0
main_returns ==
    /\ exit_code' = 0
    /\ stage' = "Done"
    /\ pc' = "exiting"
    /\ UNCHANGED <<step, error, unwound>>

(***************************************************************************)
(* main(), lines 1016-1064: the dispatch on the arguments.                 *)
(***************************************************************************)
Main_Dispatch ==
    /\ pc = "main"
    /\ VERBOSE' = args.verbose
    /\ IF bump_requested(args)
       THEN Goto("bump", step)
       ELSE IF rejects_test_only_with_tests(args)
       THEN print_error("Cannot use --test-only with -t", None)
       ELSE IF rejects_engine_and_app(args)
       THEN print_error("Cannot use -e and -a together", None)
       ELSE IF preset_prefix_of(system) = None
       THEN print_error("Unsupported platform", system)
       ELSE IF args.test_only
       THEN Goto("test_only", step)
       ELSE Goto("pipeline", step)
    /\ UNCHANGED <<inputs, disk, bumpv, CMAKE_PATH, PNPM_PATH, VCPKG_ROOT, prereqv, cmdv,
                   enginev, spinner, interrupted>>

\* lines 1066-1086: header, build info, and the try block is entered with
\* the "Prerequisites" step
Enter_Pipeline ==
    /\ pc = "pipeline"
    /\ pc' = "check_tool"
    /\ stage' = "CheckingPrerequisites"
    /\ UNCHANGED <<inputs, disk, bumpv, globals, step, exit_code, error, unwound, prereqv,
                   cmdv, enginev, spinner, interrupted>>

(***************************************************************************)
(* The prerequisite check: check_tool, check_vcpkg, check_prerequisites.   *)
(***************************************************************************)
\* check_prerequisites: tools
tools_of(skip_app) ==
    <<"CMake", "Ninja">> \o (IF skip_app THEN <<>> ELSE <<"pnpm">>)

\* command[0] of each tool
exe_of(name) == CASE name = "CMake" -> "cmake"
                  [] name = "Ninja" -> "ninja"
                  [] name = "pnpm"  -> "pnpm"

\* the path a search returned for an executable
found_path(exe) == CASE exe = "cmake" -> "/found/cmake"
                     [] exe = "ninja" -> "/found/ninja"
                     [] exe = "pnpm"  -> "/found/pnpm"

\* What the host answers to one call of check_tool: for the Windows search
\* (find_cmake_windows, find_pnpm_windows) and for shutil.which, whether a path
\* was found and how its "--version" probe ended:
\*   "absent" no path, "ok" exit code 0, "fail" non-zero exit or not executable,
\*   "int" a KeyboardInterrupt raised while the probe ran;
\* helpers: the Windows search ran a vswhere / npm query, and helper_int: a
\* KeyboardInterrupt was raised while one of them ran.
ProbeOutcomes == {"absent", "ok", "fail", "int"}

uses_windows_search(name, sys) == sys = "Windows" /\ name \in {"CMake", "pnpm"}

ProbeEnv(name, sys) ==
    { e \in [win : ProbeOutcomes, std : ProbeOutcomes, helpers : BOOLEAN,
             helper_int : BOOLEAN] :
        /\ ~uses_windows_search(name, sys) => e.win = "absent" /\ ~e.helpers
        /\ (name = "CMake" /\ sys = "Windows") => e.std = "absent"
        \* find_pnpm_windows looks on PATH first: nothing found, nothing on PATH
        /\ (name = "pnpm" /\ sys = "Windows" /\ e.win = "absent") => e.std = "absent"
        /\ e.helper_int => e.helpers }

\* a variant of check_tool for which a located path is enough
check_tool_located(name, sys, e, cmake_path, pnpm_path) ==
    LET decided == IF uses_windows_search(name, sys) /\ e.win # "absent"
                   THEN e.win ELSE e.std
    IN  [ok |-> decided # "absent",
         CMAKE_PATH |-> cmake_path,
         PNPM_PATH |-> pnpm_path,
         probe |-> decided,
         runs |-> e.helpers \/ e.win # "absent" \/ e.std # "absent",
         swallowed |-> e.helper_int \/ e.win = "int" \/ e.std = "int"]

\* check_tool(name, command) on a host that answers e: whether the tool is
\* reported available, the globals it leaves, the probe that decided
\* ("absent" when no path was found), and what it ran
check_tool(name, sys, e, cmake_path, pnpm_path) ==
    IF name = "CMake" /\ sys = "Windows"
    THEN [ok |-> e.win = "ok",
          CMAKE_PATH |-> IF e.win = "ok" THEN found_path("cmake") ELSE cmake_path,
          PNPM_PATH |-> pnpm_path,
          probe |-> e.win,
          runs |-> e.helpers \/ e.win # "absent",
          swallowed |-> e.helper_int \/ e.win = "int"]
    ELSE IF name = "pnpm" /\ sys = "Windows" /\ e.win = "ok"
    THEN [ok |-> TRUE,
          CMAKE_PATH |-> cmake_path,
          PNPM_PATH |-> found_path("pnpm"),
          probe |-> e.win,
          runs |-> TRUE,
          swallowed |-> e.helper_int]
    ELSE \* the standard check, and the fallback for pnpm on Windows
         [ok |-> e.std = "ok",
          CMAKE_PATH |-> cmake_path,
          PNPM_PATH |-> IF e.std = "ok" /\ name = "pnpm"
                        THEN found_path("pnpm") ELSE pnpm_path,
          probe |-> e.std,
          runs |-> e.helpers \/ e.win # "absent" \/ e.std # "absent",
          swallowed |-> e.helper_int \/ e.win = "int" \/ e.std = "int"]

\* check_prerequisites, one turn of "for name, cmd in tools"
Check_Tool ==
    /\ pc = "check_tool"
    /\ LET tools == tools_of(skip_app_of(args))
           name  == tools[Len(results) + 1]
       IN  \E e \in ProbeEnv(name, system) :
             LET r == check_tool(name, system, e, CMAKE_PATH, PNPM_PATH)
             IN  /\ results' = Append(results, [name |-> name, ok |-> r.ok])
                 /\ probe' = [name |-> name, outcome |-> r.probe]
                 /\ CMAKE_PATH' = r.CMAKE_PATH
                 /\ PNPM_PATH' = r.PNPM_PATH
                 /\ spawned' = (spawned \/ r.runs)
                 /\ interrupted' = (interrupted \/ r.swallowed)
                 /\ pc' = IF Len(results) + 1 = Len(tools) THEN "check_vcpkg"
                          ELSE "check_tool"
    /\ UNCHANGED <<inputs, disk, bumpv, VERBOSE, VCPKG_ROOT, step, stage, exit_code, error,
                   unwound, ret, commands, report, enginev, spinner>>

\* What the host answers to check_vcpkg: whether a root was found (through
\* VCPKG_ROOT / VCPKG_INSTALLATION_ROOT, PATH, Visual Studio or a common
\* directory), and on Windows whether vswhere was run and interrupted
VcpkgEnv(sys) ==
    { e \in [found : BOOLEAN, helpers : BOOLEAN, helper_int : BOOLEAN] :
        /\ sys # "Windows" => ~e.helpers
        /\ e.helper_int => e.helpers }

\* check_vcpkg(): the root path, or None
check_vcpkg(e) == IF e.found THEN "/found/vcpkg" ELSE None

\* check_prerequisites, "Check vcpkg separately": no probe is run
Check_Vcpkg ==
    /\ pc = "check_vcpkg"
    /\ \E e \in VcpkgEnv(system) :
         LET vcpkg_root == check_vcpkg(e)
         IN  /\ IF vcpkg_root # None
                THEN /\ VCPKG_ROOT' = vcpkg_root
                     /\ results' = Append(results, [name |-> "vcpkg", ok |-> TRUE])
                ELSE /\ VCPKG_ROOT' = VCPKG_ROOT
                     /\ results' = Append(results, [name |-> "vcpkg", ok |-> FALSE])
             /\ probe' = [name |-> "vcpkg", outcome |-> None]
             /\ spawned' = (spawned \/ e.helpers)
             /\ interrupted' = (interrupted \/ e.helper_int)
    /\ pc' = "prereq_report"
    /\ UNCHANGED <<inputs, disk, bumpv, VERBOSE, CMAKE_PATH, PNPM_PATH, step, stage,
                   exit_code, error, unwound, ret, commands, report, enginev, spinner>>

\* a variant in which the verdict does not look at the results
all_ok_ignored(res) == TRUE

\* all_ok after the loop and the vcpkg check
all_ok(res) == \A i \in 1..Len(res) : res[i].ok

\* check_prerequisites, "Print results": the table, then the verdict; back in
\* main the engine stage or the search for an existing binary follows
Prereq_Report ==
    /\ pc = "prereq_report"
    /\ IF ~all_ok(results)
       THEN print_error("Missing prerequisites", None)
       ELSE IF skip_engine_of(args) THEN Goto("skip_engine", step)
       ELSE Goto("engine", step)
    /\ UNCHANGED <<inputs, disk, bumpv, globals, prereqv, cmdv, enginev, spinner, interrupted>>

(***************************************************************************)
(* class Spinner.  A Spinner object is [running, thread], with idx the     *)
(* frame its thread is at; extra counts the live threads of this object    *)
(* that self.thread no longer names, final the final lines stop() wrote    *)
(* for it, and orphans the live threads of earlier objects, which nothing  *)
(* joins.                                                                  *)
(***************************************************************************)
\* Spinner(message): a new object takes the place of the one in scope
Spinner_init(sp) ==
    [running |-> FALSE, thread |-> "none", idx |-> 0, extra |-> 0, final |-> 0,
     orphans |-> sp.orphans + sp.extra + (IF sp.thread = "alive" THEN 1 ELSE 0)]

\* a variant of Spinner.start() without the test of VERBOSE
Spinner_start_unguarded(sp, verbose) ==
    [sp EXCEPT !.running = TRUE, !.thread = "alive", !.idx = 0,
               !.extra = @ + (IF sp.thread = "alive" THEN 1 ELSE 0)]

\* Spinner.start(): a new thread each time, whether or not one is running
Spinner_start(sp, verbose) ==
    IF ~verbose
    THEN [sp EXCEPT !.running = TRUE, !.thread = "alive", !.idx = 0,
                    !.extra = @ + (IF sp.thread = "alive" THEN 1 ELSE 0)]
    ELSE sp

\* Spinner.stop(), up to the join: self.running = False
Spinner_stop(sp, verbose) ==
    IF ~verbose THEN [sp EXCEPT !.running = FALSE] ELSE sp

\* a variant of Spinner.stop() that does not wait for the thread
Spinner_joined_at_once(sp) == TRUE

\* Spinner.stop(): self.thread.join() returns once the thread has ended
Spinner_joined(sp) == sp.thread # "alive"

\* Spinner.stop(), after the join: the final line is written
Spinner_final(sp) == [sp EXCEPT !.final = @ + 1]

\* Spinner._spin, one turn of the loop: draw a frame, sleep, next frame
Spin ==
    /\ spinner.thread = "alive"
    /\ spinner.running
    /\ spinner' = [spinner EXCEPT !.idx = (@ + 1) % NumFrames]
    /\ UNCHANGED <<inputs, disk, bumpv, globals, ctl, prereqv, cmdv, enginev, interrupted>>

\* Spinner._spin: the loop ends when self.running is False
Spin_Exit ==
    /\ spinner.thread = "alive"
    /\ ~spinner.running
    /\ spinner' = [spinner EXCEPT !.thread = "dead", !.idx = 0]
    /\ UNCHANGED <<inputs, disk, bumpv, globals, ctl, prereqv, cmdv, enginev, interrupted>>

\* Spinner._spin in a thread of an earlier start(): it reads the same
\* self.running, and its loop ends when that is False
Spin_Exit_Extra ==
    /\ spinner.extra > 0
    /\ ~spinner.running
    /\ spinner' = [spinner EXCEPT !.extra = @ - 1]
    /\ UNCHANGED <<inputs, disk, bumpv, globals, ctl, prereqv, cmdv, enginev, interrupted>>

(***************************************************************************)
(* print_command_error and run_command.                                    *)
(*                                                                         *)
(* The combined output of a command is a sequence of lines; a line is a    *)
(* number, 0 for a line of white space only.                               *)
(***************************************************************************)
Lines(n) == [i \in 1..n |-> i]

RECURSIVE lstrip_lines(_)
lstrip_lines(o) == IF o # <<>> /\ o[1] = 0 THEN lstrip_lines(Tail(o)) ELSE o

RECURSIVE rstrip_lines(_)
rstrip_lines(o) == IF o # <<>> /\ o[Len(o)] = 0
                   THEN rstrip_lines(SubSeq(o, 1, Len(o) - 1)) ELSE o

\* output.strip().split('\n'): a text of white space only splits into one
\* empty line
split_lines(o) ==
    LET t == rstrip_lines(lstrip_lines(o))
    IN  IF t = <<>> THEN <<0>> ELSE t

\* a variant of print_command_error that shows the first lines of the output
print_command_error_head(cmd, code, output, description, verbose) ==
    LET with_output == output # <<>> /\ ~verbose
        lines == split_lines(output)
    IN  [printed     |-> TRUE,
         description |-> description,
         cmd         |-> cmd,
         exit_code   |-> code,
         with_output |-> with_output,
         shown       |-> IF ~with_output THEN <<>>
                         ELSE IF Len(lines) > TailLines
                         THEN SubSeq(lines, 1, TailLines)
                         ELSE lines,
         more        |-> IF with_output /\ Len(lines) > TailLines
                         THEN Len(lines) - TailLines ELSE 0]

\* print_command_error(cmd, exit_code, output, description): what is printed
print_command_error(cmd, code, output, description, verbose) ==
    LET with_output == output # <<>> /\ ~verbose
        lines == split_lines(output)
    IN  [printed     |-> TRUE,
         description |-> description,
         cmd         |-> cmd,
         exit_code   |-> code,
         with_output |-> with_output,
         shown       |-> IF ~with_output THEN <<>>
                         ELSE IF Len(lines) > TailLines
                         THEN SubSeq(lines, Len(lines) - TailLines + 1, Len(lines))
                         ELSE lines,
         more        |-> IF with_output /\ Len(lines) > TailLines
                         THEN Len(lines) - TailLines ELSE 0]

\* the outputs a failing command may have left, in captured mode
FailureOutputs == { Lines(n) : n \in {0, TailLines + MaxExtraLines} }

\* the non-zero exit codes a command may end with
FailCodes == {1, 2}

\* run_command, "Resolve pnpm path on Windows if needed"
resolve_cmd(cmd, sys, pnpm_path) ==
    IF cmd # <<>> /\ cmd[1] = "pnpm" /\ sys = "Windows" /\ pnpm_path # "pnpm"
    THEN <<pnpm_path>> \o Tail(cmd)
    ELSE cmd

\* the executables whose availability a successful probe of
\* check_prerequisites has shown
verified_exes(res, cmake_path, pnpm_path) ==
    UNION { IF ~res[i].ok THEN {}
            ELSE IF res[i].name = "CMake" THEN {cmake_path}
            ELSE IF res[i].name = "pnpm" THEN {pnpm_path}
            ELSE IF res[i].name = "Ninja" THEN {"ninja"}
            ELSE {} : i \in 1..Len(res) }

\* how subprocess.run(cmd, check=True) can end: exit code 0, CalledProcessError,
\* or FileNotFoundError when the executable is not one known to be there
RunOutcomes(cmd, res, sys, cmake_path, pnpm_path) ==
    {"ok", "fail"} \cup
    (IF \/ cmd[1] \in verified_exes(res, cmake_path, pnpm_path)
        \/ (cmd[1] = "pnpm" /\ sys # "Windows"
            /\ pnpm_path \in verified_exes(res, cmake_path, pnpm_path))
     THEN {} ELSE {"notfound"})

\* the sub-stages of build_engine and build_app that run a command:
\* its argv and its description
argv_of(s, cmake_path, preset, run_tests) ==
    CASE s = "configure" -> <<cmake_path, "--preset", preset>>
                            \o (IF run_tests THEN <<"-DVAYU_BUILD_TESTS=ON">> ELSE <<>>)
      [] s = "build"     -> <<cmake_path, "--build", "--preset", preset>>
      [] s = "tests"     -> <<"ctest", "--preset", preset>>
      [] s = "install"   -> <<"pnpm", "install">>
      [] s = "compile"   -> <<"pnpm", "run", "electron:compile">>
      [] s = "bundle"    -> <<"pnpm", "run", "build">>
      [] s = "package"   -> <<"pnpm", "run", "electron:pack">>

description_of(s) ==
    CASE s = "configure" -> "CMake configuration"
      [] s = "build"     -> "Build"
      [] s = "tests"     -> "Unit tests"
      [] s = "install"   -> "pnpm install"
      [] s = "compile"   -> "TypeScript compilation"
      [] s = "bundle"    -> "React build"
      [] s = "package"   -> "Electron packaging"

CommandSteps == {"configure", "build", "tests", "install", "compile", "bundle", "package"}

\* a variant of run_command that ends the run when the command fails
run_command_exiting(cmd, outcome, code, output, description, verbose) ==
    IF outcome = "ok"
    THEN [returns |-> TRUE, success |-> TRUE,
          output |-> IF verbose THEN <<>> ELSE output,
          report |-> NoReport, fatal |-> NoError]
    ELSE [returns |-> FALSE, success |-> FALSE, output |-> <<>>,
          report |-> IF outcome = "fail"
                     THEN print_command_error(cmd, code, output, description, verbose)
                     ELSE NoReport,
          fatal |-> [kind |-> IF outcome = "fail" THEN "Command failed"
                              ELSE "Command not found",
                     detail |-> cmd[1]]]

\* a variant of run_command that treats a missing executable as a failure
run_command_generic(cmd, outcome, code, output, description, verbose) ==
    IF outcome = "ok"
    THEN [returns |-> TRUE, success |-> TRUE,
          output |-> IF verbose THEN <<>> ELSE output,
          report |-> NoReport, fatal |-> NoError]
    ELSE [returns |-> TRUE, success |-> FALSE, output |-> output,
          report |-> print_command_error(cmd, code, output, description, verbose),
          fatal |-> NoError]

\* a variant of run_command that reports a failed command as a success
run_command_forgiving(cmd, outcome, code, output, description, verbose) ==
    IF outcome = "notfound"
    THEN [returns |-> FALSE, success |-> FALSE, output |-> <<>>,
          report |-> NoReport,
          fatal |-> [kind |-> "Command not found", detail |-> cmd[1]]]
    ELSE [returns |-> TRUE, success |-> TRUE, output |-> output,
          report |-> IF outcome = "fail"
                     THEN print_command_error(cmd, code, output, description, verbose)
                     ELSE NoReport,
          fatal |-> NoError]

\* run_command(cmd, cwd, description) once subprocess.run has ended with
\* outcome: whether it returns to its caller, the (success, output) it returns,
\* the failure report it prints, and the fatal error it ends the run with
run_command(cmd, outcome, code, output, description, verbose) ==
    CASE outcome = "ok" ->
           [returns |-> TRUE, success |-> TRUE,
            output |-> IF verbose THEN <<>> ELSE output,
            report |-> NoReport, fatal |-> NoError]
      [] outcome = "fail" ->
           [returns |-> TRUE, success |-> FALSE, output |-> output,
            report |-> print_command_error(cmd, code, output, description, verbose),
            fatal |-> NoError]
      [] outcome = "notfound" ->
           [returns |-> FALSE, success |-> FALSE, output |-> <<>>,
            report |-> NoReport,
            fatal |-> [kind |-> "Command not found", detail |-> cmd[1]]]

\* a sub-stage of build_engine / build_app calls run_command
Run_Command ==
    /\ pc = "body"
    /\ step \in CommandSteps
    /\ LET cmd == resolve_cmd(argv_of(step, CMAKE_PATH, preset_of(system, args),
                                      args.tests), system, PNPM_PATH)
       IN  \E outcome \in RunOutcomes(cmd, results, system, CMAKE_PATH, PNPM_PATH) :
           \E code \in (IF outcome = "fail" THEN FailCodes ELSE {0}) :
           \E output \in (IF outcome = "fail" /\ ~VERBOSE THEN FailureOutputs ELSE {<<>>}) :
             LET r == run_command(cmd, outcome, code, output, description_of(step),
                                  VERBOSE)
             IN  /\ commands' = Append(commands, [argv |-> cmd, outcome |-> outcome,
                                                   code |-> code])
                 /\ spawned' = (spawned \/ outcome # "notfound")
                 /\ report' = IF r.report.printed THEN r.report ELSE report
                 \* the build leaves the binary, or does not
                 /\ IF step = "build" /\ outcome = "ok"
                    THEN engine_exists' \in {"yes", "no"}
                    ELSE engine_exists' = engine_exists
                 /\ IF r.returns
                    THEN /\ ret' = [success |-> r.success, output |-> r.output]
                         /\ Goto("spin_stop", step)
                    ELSE /\ ret' = ret
                         /\ print_error(r.fatal.kind, r.fatal.detail)
    /\ UNCHANGED <<inputs, disk, bumpv, globals, prereqv, engine_binary, artifacts, spinner,
                   interrupted>>

(***************************************************************************)
(* build_engine, build_app, setup_icons: the sub-stages.  Each is          *)
(*   spinner = Spinner(..); spinner.start(); <body>; spinner.stop(..)      *)
(* and pc walks "spin_start", "body", "spin_stop", "spin_join".            *)
(***************************************************************************)
\* main, lines 1090-1094, and build_engine up to "Clean": the engine stage
\* begins; the build directory is there or not
Begin_Engine ==
    /\ pc = "engine"
    /\ stage' = "BuildingEngine"
    /\ \E build_dir_exists \in BOOLEAN :
         /\ step' = IF args.clean /\ build_dir_exists THEN "clean" ELSE "configure"
         \* "clean and build_dir.exists()": looked at only when clean is set
         /\ disk' = IF args.clean
                    THEN [disk EXCEPT !.build_dir = seen(build_dir_exists)]
                    ELSE disk
    /\ pc' = "spin_start"
    /\ UNCHANGED <<inputs, bumpv, globals, exit_code, error, unwound, prereqv, cmdv,
                   enginev, spinner, interrupted>>

\* main, lines 1097-1110: the engine stage is skipped and an existing binary
\* is looked for
Skip_Engine ==
    /\ pc = "skip_engine"
    /\ engine_binary' = "engine/build/vayu-engine"
    /\ engine_exists' \in {"yes", "no"}
    /\ Goto(IF skip_app_of(args) THEN "collect" ELSE "app", step)
    /\ UNCHANGED <<inputs, disk, bumpv, globals, prereqv, cmdv, artifacts, spinner,
                   interrupted>>

\* spinner = Spinner(...); spinner.start()
Spin_Start ==
    /\ pc = "spin_start"
    /\ spinner' = Spinner_start(Spinner_init(spinner), VERBOSE)
    /\ pc' = "body"
    /\ UNCHANGED <<inputs, disk, bumpv, globals, step, stage, exit_code, error, unwound,
                   prereqv, cmdv, enginev, interrupted>>

\* the bodies that run no command: shutil.rmtree(build_dir) in build_engine,
\* the copies of setup_icons, the copy of the engine binary in build_app.
\* An OSError is caught by "except Exception" in main.
FileSteps == {"clean", "icons", "copy"}

Run_FileStep ==
    /\ pc = "body"
    /\ step \in FileSteps
    /\ \E raised \in BOOLEAN :
         IF raised
         THEN /\ print_error("Exception", step)
              /\ UNCHANGED <<ret, engine_exists>>
         ELSE /\ ret' = [success |-> TRUE, output |-> <<>>]
              /\ engine_exists' = IF step = "clean" THEN "no" ELSE engine_exists
              /\ Goto("spin_stop", step)
    /\ UNCHANGED <<inputs, disk, bumpv, globals, prereqv, commands, report, spawned,
                   engine_binary, artifacts, spinner, interrupted>>

\* a variant in which the app stage follows whatever was asked for
after_engine_app(a) == "app"

\* main, lines 1095 and 1112-1113, after build_engine returned the binary
after_engine(a) == IF skip_app_of(a) THEN "collect" ELSE "app"

\* What follows a sub-stage once its spinner is stopped: the next sub-stage,
\* the return to main, or sys.exit(1) in main when the stage returned failure.
\* Sets ctl and engine_binary.
After_Step ==
    CASE step = "clean" ->
           Goto("spin_start", "configure") /\ UNCHANGED engine_binary
      [] step = "configure" ->
           /\ IF ret.success THEN Goto("spin_start", "build") ELSE sys_exit_1
           /\ UNCHANGED engine_binary
      [] step = "build" ->
           /\ IF ret.success THEN Goto("verify", step) ELSE sys_exit_1
           /\ UNCHANGED engine_binary
      [] step = "tests" ->
           IF ret.success
           THEN /\ engine_binary' = "engine/build/vayu-engine"
                /\ Goto(after_engine(args), step)
           ELSE sys_exit_1 /\ UNCHANGED engine_binary
      [] step = "install" ->
           /\ IF ret.success THEN Goto("spin_start", "icons") ELSE sys_exit_1
           /\ UNCHANGED engine_binary
      [] step = "icons" ->
           Goto("spin_start", "compile") /\ UNCHANGED engine_binary
      [] step = "compile" ->
           /\ IF ~ret.success THEN sys_exit_1
              ELSE IF dev_mode_of(args) THEN Goto("collect", step)
              ELSE Goto("spin_start", "bundle")
           /\ UNCHANGED engine_binary
      [] step = "bundle" ->
           /\ IF ~ret.success THEN sys_exit_1
              ELSE IF engine_binary # None /\ engine_exists = "yes"
              THEN Goto("spin_start", "copy")
              ELSE Goto("spin_start", "package")
           /\ UNCHANGED engine_binary
      [] step = "copy" ->
           Goto("spin_start", "package") /\ UNCHANGED engine_binary
      [] step = "package" ->
           /\ IF ret.success THEN Goto("collect", step) ELSE sys_exit_1
           /\ UNCHANGED engine_binary
      [] step = "test_only" ->
           /\ IF ret.success THEN main_returns ELSE sys_exit_1
           /\ UNCHANGED engine_binary

\* spinner.stop(...): in verbose mode nothing happens and the caller goes on;
\* otherwise self.running = False, and the join follows
Spin_Stop ==
    /\ pc = "spin_stop"
    /\ spinner' = Spinner_stop(spinner, VERBOSE)
    /\ IF VERBOSE
       THEN After_Step
       ELSE Goto("spin_join", step) /\ UNCHANGED engine_binary
    /\ UNCHANGED <<inputs, disk, bumpv, globals, prereqv, cmdv, engine_exists, artifacts,
                   interrupted>>

\* spinner.stop(...): the join returns, the final glyph is written, and the
\* caller goes on
Spin_Join ==
    /\ pc = "spin_join"
    /\ Spinner_joined(spinner)
    /\ spinner' = Spinner_final(spinner)
    /\ After_Step
    /\ UNCHANGED <<inputs, disk, bumpv, globals, prereqv, cmdv, engine_exists, artifacts,
                   interrupted>>

\* a variant of the end of build_engine that does not look for the binary and
\* runs the tests whether asked for or not
Verify_Binary_unchecked ==
    /\ pc = "verify"
    /\ Goto("spin_start", "tests") /\ UNCHANGED engine_binary
    /\ UNCHANGED <<inputs, disk, bumpv, globals, prereqv, cmdv, engine_exists, artifacts,
                   spinner, interrupted>>

\* build_engine, "Verify binary", and the return to main when no tests run
Verify_Binary ==
    /\ pc = "verify"
    /\ IF engine_exists # "yes"
       THEN print_error("Binary not found", None) /\ UNCHANGED engine_binary
       ELSE IF args.tests
       THEN Goto("spin_start", "tests") /\ UNCHANGED engine_binary
       ELSE /\ engine_binary' = "engine/build/vayu-engine"
            /\ Goto(after_engine(args), step)
    /\ UNCHANGED <<inputs, disk, bumpv, globals, prereqv, cmdv, engine_exists, artifacts,
                   spinner, interrupted>>

\* main, lines 1112-1116, and build_app up to "Install dependencies": the app
\* directory and node_modules are there or not
Begin_App ==
    /\ pc = "app"
    /\ \E app_dir_exists \in BOOLEAN, node_modules_exists \in BOOLEAN :
         IF ~app_dir_exists
         THEN /\ print_error("App directory not found", None)
              /\ disk' = [disk EXCEPT !.app_dir = "no"]
         ELSE /\ stage' = "BuildingApp"
              /\ step' = IF node_modules_exists THEN "icons" ELSE "install"
              /\ pc' = "spin_start"
              /\ disk' = [disk EXCEPT !.app_dir = "yes",
                                      !.node_modules = seen(node_modules_exists)]
              /\ UNCHANGED <<exit_code, error, unwound>>
    /\ UNCHANGED <<inputs, bumpv, globals, prereqv, cmdv, enginev, spinner, interrupted>>

(***************************************************************************)
(* run_tests_only.                                                         *)
(***************************************************************************)
\* main, lines 1053-1057, and run_tests_only up to the spinner: the build
\* directory and the test binary are there or not
Tests_Only_Check ==
    /\ pc = "test_only"
    /\ \E build_dir_exists \in BOOLEAN, test_binary_exists \in BOOLEAN :
         IF ~build_dir_exists
         THEN /\ print_error("Build directory not found", None)
              /\ disk' = [disk EXCEPT !.build_dir = "no"]
         ELSE /\ disk' = [disk EXCEPT !.build_dir = "yes",
                                      !.test_binary = seen(test_binary_exists)]
              /\ IF ~test_binary_exists
                 THEN print_error("Tests not found", None)
                 ELSE Goto("spin_start", "test_only")
    /\ UNCHANGED <<inputs, bumpv, globals, prereqv, cmdv, enginev, spinner, interrupted>>

\* a variant of test_cmd without the option that shows the output of failures
test_cmd_quiet(preset) == <<"ctest", "--preset", preset>>

\* test_cmd of run_tests_only
test_cmd_of(preset) == <<"ctest", "--preset", preset, "--output-on-failure">>

\* run_tests_only, lines 628-639: subprocess.run(test_cmd) without check=True;
\* nothing catches its FileNotFoundError.  In verbose mode spinner.stop() has
\* done nothing before the run and the function returns after it.
Run_Tests_Only ==
    /\ pc = "body"
    /\ step = "test_only"
    /\ \E outcome \in {"ok", "fail", "notfound"} :
         /\ commands' = Append(commands,
                                [argv |-> test_cmd_of(preset_of(system, args)),
                                 outcome |-> outcome,
                                 code |-> IF outcome = "fail" THEN ExitFailure ELSE 0])
         /\ IF outcome = "notfound"
            THEN /\ uncaught("FileNotFoundError", ExitFailure)
                 /\ UNCHANGED <<ret, spawned, engine_binary>>
            ELSE /\ spawned' = TRUE
                 /\ \E output \in (IF outcome = "fail" /\ ~VERBOSE
                                   THEN FailureOutputs ELSE {<<>>}) :
                      ret' = [success |-> outcome = "ok", output |-> output]
                 /\ IF VERBOSE
                    THEN IF outcome = "ok" THEN main_returns ELSE sys_exit_1
                    ELSE Goto("spin_stop", step)
                 /\ UNCHANGED engine_binary
    /\ UNCHANGED <<inputs, disk, bumpv, globals, prereqv, report, engine_exists, artifacts,
                   spinner, interrupted>>

(***************************************************************************)
(* get_artifacts and the end of main.                                      *)
(***************************************************************************)
Rep(label, n) == [i \in 1..n |-> label]

\* get_artifacts(dev_mode, skip_engine, skip_app, engine_binary, project_root)
\* when the globs of app/release match n1 (and, on Linux, n2) files
get_artifacts(dev_mode, skip_engine, skip_app, binary, exists, sys, release, n1, n2) ==
    (IF ~skip_engine /\ binary # None /\ exists = "yes" THEN <<"Engine">> ELSE <<>>)
    \o (IF ~skip_app /\ ~dev_mode /\ release
        THEN CASE sys = "Windows" -> Rep("Installer", n1)
               [] sys = "Linux"   -> Rep("AppImage", n1) \o Rep("Debian", n2)
               [] sys = "Darwin"  -> Rep("DMG", n1)
        ELSE <<>>)

\* main, lines 1119-1121
Get_Artifacts ==
    /\ pc = "collect"
    /\ stage' = "CollectingArtifacts"
    /\ \E release_exists \in BOOLEAN, n1 \in 0..MaxInstallers, n2 \in 0..MaxInstallers :
         artifacts' = get_artifacts(dev_mode_of(args), skip_engine_of(args),
                                    skip_app_of(args), engine_binary, engine_exists,
                                    system, release_exists, n1, n2)
    /\ pc' = "success"
    /\ UNCHANGED <<inputs, disk, bumpv, globals, step, exit_code, error, unwound, prereqv,
                   cmdv, engine_binary, engine_exists, spinner, interrupted>>

\* main, lines 1123-1124: print_success, print_next_steps, and main returns
Main_Success ==
    /\ pc = "success"
    /\ main_returns
    /\ UNCHANGED <<inputs, disk, bumpv, globals, prereqv, cmdv, enginev, spinner, interrupted>>

(***************************************************************************)
(* KeyboardInterrupt, and the end of the process.                          *)
(***************************************************************************)
\* the positions of the main thread inside the try block of main (lines
\* 1081-1124); run_tests_only is called before it
in_try ==
    /\ pc \in {"check_tool", "check_vcpkg", "prereq_report", "engine", "skip_engine",
               "spin_start", "body", "spin_stop", "spin_join", "verify", "app",
               "collect", "success"}
    /\ step # "test_only"

\* A KeyboardInterrupt is raised in the main thread outside the bare
\* "except:" clauses of check_tool and the find_* helpers: inside the try block
\* "except KeyboardInterrupt" reports it; elsewhere nothing catches it.
Interrupt ==
    /\ pc \notin {"exiting", "terminated"}
    /\ interrupted' = TRUE
    /\ IF in_try
       THEN print_error("Build interrupted", None)
       ELSE uncaught("KeyboardInterrupt", ExitSigint)
    /\ UNCHANGED <<inputs, disk, bumpv, globals, prereqv, cmdv, enginev, spinner>>

\* The interpreter ends the process once every non-daemon thread has ended.
Terminate ==
    /\ pc = "exiting"
    /\ spinner.thread # "alive"
    /\ spinner.extra = 0
    /\ spinner.orphans = 0
    /\ pc' = "terminated"
    /\ UNCHANGED <<inputs, disk, bumpv, globals, step, stage, exit_code, error, unwound,
                   prereqv, cmdv, enginev, spinner, interrupted>>

(***************************************************************************)
(* bump_version.                                                           *)
(***************************************************************************)
\* a variant of the first part of bump_version that goes on to write on a
\* dry run as well
Bump_Compute_writing ==
    /\ pc = "bump"
    /\ IF files.VERSION = NoText
       THEN /\ print_error("VERSION file not found", None)
            /\ UNCHANGED <<current_version, new_version>>
       ELSE LET cur == strip(files.VERSION)
            IN  IF ~parse_ok(cur)
                THEN /\ print_error("Invalid version format", "current")
                     /\ current_version' = cur
                     /\ UNCHANGED new_version
                ELSE LET t  == parse_version(cur)
                         nv == new_version_of(args.bump_version, t[1], t[2], t[3])
                     IN  /\ current_version' = cur
                         /\ new_version' = nv
                         /\ IF args.bump_version \notin Keywords /\ ~parse_ok(nv)
                            THEN print_error("Invalid version format", "target")
                            ELSE Goto("write_VERSION", step)
    /\ UNCHANGED <<inputs, disk, files, globals, prereqv, cmdv, enginev, spinner, interrupted>>

\* bump_version, lines 896-926: read and parse the current version, compute
\* and validate the new one, and return here on a dry run
Bump_Compute ==
    /\ pc = "bump"
    /\ IF files.VERSION = NoText
       THEN /\ print_error("VERSION file not found", None)
            /\ UNCHANGED <<current_version, new_version>>
       ELSE LET cur == strip(files.VERSION)
            IN  IF ~parse_ok(cur)
                THEN /\ print_error("Invalid version format", "current")
                     /\ current_version' = cur
                     /\ UNCHANGED new_version
                ELSE LET t  == parse_version(cur)
                         nv == new_version_of(args.bump_version, t[1], t[2], t[3])
                     IN  /\ current_version' = cur
                         /\ new_version' = nv
                         /\ IF args.bump_version \notin Keywords /\ ~parse_ok(nv)
                            THEN print_error("Invalid version format", "target")
                            ELSE IF args.dry_run THEN main_returns
                            ELSE Goto("write_VERSION", step)
    /\ UNCHANGED <<inputs, disk, files, globals, prereqv, cmdv, enginev, spinner, interrupted>>

\* a variant of the VERSION step that adds the new line to the file
Write_VERSION_appending ==
    /\ pc = "write_VERSION"
    /\ \E oserror \in BOOLEAN :
         IF oserror
         THEN uncaught("OSError", ExitFailure) /\ UNCHANGED files
         ELSE /\ files' = [files EXCEPT !.VERSION = @ \o new_version \o <<"\n">>]
              /\ Goto("write_cmake", step)
    /\ UNCHANGED <<inputs, disk, current_version, new_version, globals, prereqv, cmdv,
                   enginev, spinner, interrupted>>

\* version_file.write_text(new_version + '\n')
Write_VERSION ==
    /\ pc = "write_VERSION"
    /\ \E oserror \in BOOLEAN :
         IF oserror
         THEN uncaught("OSError", ExitFailure) /\ UNCHANGED files
         ELSE /\ files' = [files EXCEPT !.VERSION = new_version \o <<"\n">>]
              /\ Goto("write_cmake", step)
    /\ UNCHANGED <<inputs, disk, current_version, new_version, globals, prereqv, cmdv,
                   enginev, spinner, interrupted>>

\* the length of the text that \d+\.\d+\.\d+ matches at the start of t;
\* 0 when it does not match there
xyz_prefix(t) ==
    LET ends == { n \in 1..Len(t) : t[n] \in Digits /\ MatchXYZ(SubSeq(t, 1, n)) }
    IN  IF ends = {} THEN 0 ELSE CHOOSE n \in ends : \A m \in ends : m <= n

\* re.sub(r'VERSION \d+\.\d+\.\d+', f'VERSION {new_version}', cmake_content):
\* declared is the text that follows "VERSION "; where the pattern matches it
\* the match is replaced, and otherwise the content stays as it is
sub_cmake(f, nv) ==
    [f EXCEPT !.declared = IF xyz_prefix(@) > 0
                           THEN nv \o SubSeq(@, xyz_prefix(@) + 1, Len(@))
                           ELSE @]

\* engine/CMakeLists.txt: read_text, re.sub, write_text
Write_cmake ==
    /\ pc = "write_cmake"
    /\ \E oserror \in BOOLEAN :
         IF oserror \/ ~files.cmake.exists
         THEN uncaught("OSError", ExitFailure) /\ UNCHANGED files
         ELSE /\ files' = [files EXCEPT !.cmake = sub_cmake(@, new_version)]
              /\ Goto("write_hpp", step)
    /\ UNCHANGED <<inputs, disk, current_version, new_version, globals, prereqv, cmdv,
                   enginev, spinner, interrupted>>

\* the four re.sub of version.hpp: each macro that is defined is rewritten, the
\* numeric ones from parse_version(new_version), the string one from new_version
sub_hpp(f, nv) ==
    LET t == parse_version(nv)
    IN  [f EXCEPT !.major  = IF @ # NoText THEN str(t[1]) ELSE @,
                  !.minor  = IF @ # NoText THEN str(t[2]) ELSE @,
                  !.patch  = IF @ # NoText THEN str(t[3]) ELSE @,
                  !.string = IF @ # NoText THEN nv ELSE @]

\* engine/include/vayu/version.hpp: read_text, re.sub four times, write_text
Write_hpp ==
    /\ pc = "write_hpp"
    /\ \E oserror \in BOOLEAN :
         IF oserror \/ ~files.hpp.exists
         THEN uncaught("OSError", ExitFailure) /\ UNCHANGED files
         ELSE /\ files' = [files EXCEPT !.hpp = sub_hpp(@, new_version)]
              /\ Goto("write_vcpkg", step)
    /\ UNCHANGED <<inputs, disk, current_version, new_version, globals, prereqv, cmdv,
                   enginev, spinner, interrupted>>

\* data = json.loads(...); data['version'] = new_version; json.dumps(data)
set_json_version(f, nv) == [f EXCEPT !.version = nv]

\* a variant of the vcpkg.json step that, when it fails, puts the version of
\* the three files already rewritten back
Write_vcpkg_restoring ==
    /\ pc = "write_vcpkg"
    /\ \E oserror \in BOOLEAN :
         IF oserror \/ ~files.vcpkg.exists \/ ~files.vcpkg.valid
         THEN /\ uncaught("OSError", ExitFailure)
              /\ files' = [files EXCEPT !.VERSION = current_version \o <<"\n">>,
                                        !.cmake = sub_cmake(@, current_version),
                                        !.hpp = sub_hpp(@, current_version)]
         ELSE /\ files' = [files EXCEPT !.vcpkg = set_json_version(@, new_version)]
              /\ Goto("write_package", step)
    /\ UNCHANGED <<inputs, disk, current_version, new_version, globals, prereqv, cmdv,
                   enginev, spinner, interrupted>>

\* engine/vcpkg.json
Write_vcpkg ==
    /\ pc = "write_vcpkg"
    /\ \E oserror \in BOOLEAN :
         IF oserror \/ ~files.vcpkg.exists
         THEN uncaught("OSError", ExitFailure) /\ UNCHANGED files
         ELSE IF ~files.vcpkg.valid
         THEN uncaught("JSONDecodeError", ExitFailure) /\ UNCHANGED files
         ELSE /\ files' = [files EXCEPT !.vcpkg = set_json_version(@, new_version)]
              /\ Goto("write_package", step)
    /\ UNCHANGED <<inputs, disk, current_version, new_version, globals, prereqv, cmdv,
                   enginev, spinner, interrupted>>

\* app/package.json
Write_package ==
    /\ pc = "write_package"
    /\ \E oserror \in BOOLEAN :
         IF oserror \/ ~files.package.exists
         THEN uncaught("OSError", ExitFailure) /\ UNCHANGED files
         ELSE IF ~files.package.valid
         THEN uncaught("JSONDecodeError", ExitFailure) /\ UNCHANGED files
         ELSE /\ files' = [files EXCEPT !.package = set_json_version(@, new_version)]
              /\ Goto("bump_finish", step)
    /\ UNCHANGED <<inputs, disk, current_version, new_version, globals, prereqv, cmdv,
                   enginev, spinner, interrupted>>

\* bump_version, lines 965-979: the summary, which asks detect_platform for
\* the command separator, and the return to main
Bump_Finish ==
    /\ pc = "bump_finish"
    /\ IF preset_prefix_of(system) = None
       THEN print_error("Unsupported platform", system)
       ELSE main_returns
    /\ UNCHANGED <<inputs, disk, bumpv, globals, prereqv, cmdv, enginev, spinner, interrupted>>

(***************************************************************************)
(* The specifications.                                                     *)
(***************************************************************************)
Bump_Steps ==
    \/ Bump_Compute
    \/ Write_VERSION
    \/ Write_cmake
    \/ Write_hpp
    \/ Write_vcpkg
    \/ Write_package
    \/ Bump_Finish

\* every step of the program
Next ==
    \/ Main_Dispatch
    \/ Enter_Pipeline
    \/ Check_Tool
    \/ Check_Vcpkg
    \/ Prereq_Report
    \/ Begin_Engine
    \/ Skip_Engine
    \/ Spin_Start
    \/ Run_Command
    \/ Run_FileStep
    \/ Spin_Stop
    \/ Spin_Join
    \/ Verify_Binary
    \/ Begin_App
    \/ Tests_Only_Check
    \/ Run_Tests_Only
    \/ Get_Artifacts
    \/ Main_Success
    \/ Spin
    \/ Spin_Exit
    \/ Interrupt
    \/ Terminate
    \/ Bump_Steps

\* a build: every combination of the flags without --bump-version, on every
\* platform (--dry-run is read by bump_version only)
BuildArgs == { a \in ArgSet({NoText}, {FALSE}) : TRUE }

\* --bump-version next to every combination of the other flags
BumpFlagArgs == ArgSet({Patch}, BOOLEAN)

\* --bump-version with an empty target, a malformed one, or a padded literal,
\* and no other flag but --dry-run
OddBumpArgs ==
    { a \in ArgSet({<<>>, <<"1", ".", "2">>, <<" ">> \o V(1, 2, 3)}, BOOLEAN) :
        ~a.dev /\ ~a.prod /\ ~a.engine_only /\ ~a.app_only /\ ~a.clean /\ ~a.tests
        /\ ~a.test_only /\ ~a.verbose }

\* the whole tool; a bump, when asked for, is of a project at version 1.2.3
Init ==
    \/ InitWith(BuildArgs, Systems, {Project(1, 2, 3)})
    \/ InitWith(BumpFlagArgs, {"Linux"}, {Project(1, 2, 3)})
    \/ InitWith(OddBumpArgs, {"Linux", "Other"}, {Project(1, 2, 3)})

Spec == Init /\ [][Next]_vars

\* the version bump alone: --bump-version with every keyword, literal and
\* malformed target, with and without --dry-run, on projects at every version
\* and on damaged projects
BumpArgs ==
    { a \in ArgSet(Keywords \cup Literals \cup Malformed, BOOLEAN) :
        ~a.dev /\ ~a.prod /\ ~a.engine_only /\ ~a.app_only /\ ~a.clean /\ ~a.tests
        /\ ~a.test_only /\ ~a.verbose }

BumpFiles ==
    { Project(a, b, c) : a \in Components, b \in Components, c \in Components }
    \cup { Damaged(Project(1, 2, 3), how) : how \in Damages }

InitBump == InitWith(BumpArgs, {"Linux", "Other"}, BumpFiles)

NextBump == Main_Dispatch \/ Bump_Steps \/ Interrupt \/ Terminate

SpecBump == InitBump /\ [][NextBump]_vars

(***************************************************************************)
(* The version bump run again: the tool is started anew, with the same     *)
(* arguments, on the files the run before left.                            *)
(***************************************************************************)
\* the process has ended and build.py is run once more (line 1136): what the
\* ended run read, computed and left is kept in earlier
Run_Again ==
    /\ pc = "terminated"
    /\ Len(earlier) < MaxRuns - 1
    /\ earlier' = Append(earlier, [files |-> files, from |-> current_version,
                                    to |-> new_version, stage |-> stage])
    /\ pc' = "main"
    /\ step' = None
    /\ stage' = "Idle"
    /\ exit_code' = 0
    /\ error' = NoError
    /\ unwound' = FALSE
    /\ interrupted' = FALSE
    /\ VERBOSE' = FALSE
    /\ current_version' = NoText
    /\ new_version' = NoText
    /\ UNCHANGED <<args, system, files, disk, CMAKE_PATH, PNPM_PATH, VCPKG_ROOT, prereqv,
                   cmdv, enginev, spinner>>

\* projects at a small version and at one whose components are about to get
\* a digit more, and the damaged ones
TwiceFiles ==
    { Project(1, 2, 3), Project(0, 9, MaxComponent) }
    \cup { Damaged(Project(1, 2, 3), how) : how \in Damages }

InitTwice == InitWith(BumpArgs, {"Linux", "Other"}, TwiceFiles)

NextTwice == Main_Dispatch \/ Bump_Steps \/ Interrupt \/ Terminate \/ Run_Again

SpecTwice == InitTwice /\ [][NextTwice]_vars

(***************************************************************************)
(* The class Spinner on its own: one object, in captured or verbose mode,  *)
(* whose start() and stop() are called in any order.                       *)
(***************************************************************************)
\* spinner.start()
Call_start ==
    /\ pc = "api"
    /\ spinner.extra < MaxExtra
    /\ spinner' = Spinner_start(spinner, VERBOSE)
    /\ UNCHANGED <<inputs, disk, bumpv, globals, ctl, prereqv, cmdv, enginev, interrupted>>

\* spinner.stop(): nothing in verbose mode; otherwise self.running = False,
\* and with no live thread to wait for the final line is written at once
Call_stop ==
    /\ pc = "api"
    /\ spinner.final < MaxFinal
    /\ IF VERBOSE
       THEN UNCHANGED <<spinner, pc>>
       ELSE IF Spinner_joined(spinner)
       THEN /\ spinner' = Spinner_final(Spinner_stop(spinner, VERBOSE))
            /\ pc' = "api"
       ELSE /\ spinner' = Spinner_stop(spinner, VERBOSE)
            /\ pc' = "api_join"
    /\ UNCHANGED <<inputs, disk, bumpv, globals, step, stage, exit_code, error, unwound,
                   prereqv, cmdv, enginev, interrupted>>

\* spinner.stop(): the join returns and the final line is written
Call_join ==
    /\ pc = "api_join"
    /\ Spinner_joined(spinner)
    /\ spinner' = Spinner_final(spinner)
    /\ pc' = "api"
    /\ UNCHANGED <<inputs, disk, bumpv, globals, step, stage, exit_code, error, unwound,
                   prereqv, cmdv, enginev, interrupted>>

SpinnerArgs ==
    { a \in BuildArgs : ~a.dev /\ ~a.prod /\ ~a.engine_only /\ ~a.app_only /\ ~a.clean
                        /\ ~a.tests /\ ~a.test_only }

InitSpinner ==
    /\ args \in SpinnerArgs
    /\ system = "Linux"
    /\ files = Project(1, 2, 3)
    /\ disk = NoDisk
    /\ VERBOSE = args.verbose
    /\ CMAKE_PATH = "cmake"
    /\ PNPM_PATH = "pnpm"
    /\ VCPKG_ROOT = None
    /\ pc = "api"
    /\ step = None
    /\ stage = "Idle"
    /\ results = <<>>
    /\ ret = NoRet
    /\ engine_binary = None
    /\ engine_exists = "?"
    /\ artifacts = <<>>
    /\ spinner = NoSpinner
    /\ spawned = FALSE
    /\ probe = NoProbe
    /\ commands = <<>>
    /\ report = NoReport
    /\ error = NoError
    /\ exit_code = 0
    /\ unwound = FALSE
    /\ interrupted = FALSE
    /\ current_version = NoText
    /\ new_version = NoText
    /\ earlier = <<>>

NextSpinner ==
    \/ Call_start
    \/ Call_stop
    \/ Call_join
    \/ Spin
    \/ Spin_Exit
    \/ Spin_Exit_Extra

SpecSpinner == InitSpinner /\ [][NextSpinner]_vars

(***************************************************************************)
(* The failure report on its own: one command that fails, in captured or   *)
(* verbose mode, with outputs of every length around TailLines, with and   *)
(* without blank lines before and after.                                   *)
(***************************************************************************)
Blank(n) == [i \in 1..n |-> 0]

ReportOutputs ==
    { Blank(p) \o Lines(n) \o Blank(t) :
        p \in 0..MaxBlank, t \in 0..MaxBlank,
        n \in (0..2) \cup ((TailLines - 1)..(TailLines + MaxExtraLines)) }

\* run_command, lines 497-507: subprocess.run raises CalledProcessError;
\* in verbose mode nothing was captured and the output is empty
Report_Failure ==
    /\ pc = "report"
    /\ \E code \in FailCodes :
       \E output \in (IF VERBOSE THEN {<<>>} ELSE ReportOutputs) :
         LET cmd == argv_of("build", CMAKE_PATH, preset_of(system, args), args.tests)
             r == run_command(cmd, "fail", code, output, description_of("build"), VERBOSE)
         IN  /\ commands' = Append(commands, [argv |-> cmd, outcome |-> "fail",
                                               code |-> code])
             /\ spawned' = TRUE
             /\ report' = r.report
             /\ ret' = [success |-> r.success, output |-> r.output]
             /\ Goto("reported", "build")
    /\ UNCHANGED <<inputs, disk, bumpv, globals, prereqv, enginev, spinner, interrupted>>

InitReport ==
    /\ args \in SpinnerArgs
    /\ system = "Linux"
    /\ files = Project(1, 2, 3)
    /\ disk = NoDisk
    /\ VERBOSE = args.verbose
    /\ CMAKE_PATH = "cmake"
    /\ PNPM_PATH = "pnpm"
    /\ VCPKG_ROOT = None
    /\ pc = "report"
    /\ step = None
    /\ stage = "Idle"
    /\ results = <<>>
    /\ ret = NoRet
    /\ engine_binary = None
    /\ engine_exists = "?"
    /\ artifacts = <<>>
    /\ spinner = NoSpinner
    /\ spawned = FALSE
    /\ probe = NoProbe
    /\ commands = <<>>
    /\ report = NoReport
    /\ error = NoError
    /\ exit_code = 0
    /\ unwound = FALSE
    /\ interrupted = FALSE
    /\ current_version = NoText
    /\ new_version = NoText
    /\ earlier = <<>>

NextReport == Report_Failure

SpecReport == InitReport /\ [][NextReport]_vars

(***************************************************************************)
(* Properties.                                                             *)
(***************************************************************************)
ended == pc = "terminated"

last_command == commands[Len(commands)]

last_result == results[Len(results)]

\* C1: invoked with neither --dev nor --prod, the production pipeline is
\* selected: development mode is false, the preset suffix is "prod", and an
\* app stage that has come to its end has run the bundle and package steps.
\* (main computes dev_mode = args.dev or not args.prod, so this does not hold.)
C1_ProductionByDefault ==
    (~bump_requested(args) /\ ~args.dev /\ ~args.prod /\ ~skip_app_of(args)
     /\ stage = "CollectingArtifacts")
    => /\ ~dev_mode_of(args)
       /\ mode_suffix_of(args) = "prod"
       /\ \E i \in 1..Len(commands) :
            Tail(commands[i].argv) = <<"run", "build">>
       /\ \E i \in 1..Len(commands) :
            Tail(commands[i].argv) = <<"run", "electron:pack">>

\* C2: a build invocation with both --engine-only and --app-only is rejected
\* with a fatal error before any stage begins: the pipeline never leaves Idle
\* for CheckingPrerequisites, no tool is checked, no command is run, no
\* subprocess is spawned, and the process ends with a non-zero status.
C2_EngineAndAppRejected ==
    (~bump_requested(args) /\ args.engine_only /\ args.app_only)
    => /\ stage \in {"Idle", "Failed"}
       /\ results = <<>>
       /\ commands = <<>>
       /\ ~spawned
       /\ pc \in {"main", "exiting", "terminated"}
       /\ pc # "main" => /\ stage = "Failed"
                         /\ exit_code # 0
                         /\ error.kind \in {"Cannot use -e and -a together",
                                            "Cannot use --test-only with -t",
                                            "KeyboardInterrupt"}

C2_Witness ==
    /\ ended
    /\ args.engine_only /\ args.app_only /\ ~args.test_only
    /\ error.kind = "Cannot use -e and -a together"
    /\ exit_code = ExitFailure

\* C3: a build invocation with --test-only and -t/--tests is rejected
\* pre-flight: no test-runner command and no other subprocess is run, and the
\* process ends with a non-zero status.
C3_TestOnlyWithTestsRejected ==
    (~bump_requested(args) /\ args.test_only /\ args.tests)
    => /\ commands = <<>>
       /\ ~spawned
       /\ results = <<>>
       /\ pc \in {"main", "exiting", "terminated"}
       /\ pc # "main" => /\ stage = "Failed"
                         /\ exit_code # 0
                         /\ error.kind \in {"Cannot use --test-only with -t",
                                            "KeyboardInterrupt"}

C3_Witness ==
    /\ ended
    /\ args.test_only /\ args.tests
    /\ error.kind = "Cannot use --test-only with -t"
    /\ exit_code = ExitFailure

\* C4, as the code has it: in an app-only build whose application directory
\* does not exist the run fails with a fatal error before any command of the
\* build is run; the prerequisite stage has been passed by then, and its
\* version probes were subprocesses.
C4_AppDirMissingAfterProbes ==
    (args.app_only /\ error.kind = "App directory not found")
    => /\ commands = <<>>
       /\ stage = "Failed"
       /\ exit_code # 0
       /\ results # <<>> /\ all_ok(results)
       /\ spawned

C4_Witness ==
    /\ ended
    /\ args.app_only
    /\ error.kind = "App directory not found"
    /\ commands = <<>>
    /\ spawned

\* C4 as claimed: in an app-only build whose application directory does not
\* exist the run fails before any subprocess is spawned, the version probes
\* of the prerequisite stage included.
C4_AppDirMissingBeforeAnySubprocess ==
    (args.app_only /\ error.kind = "App directory not found") => ~spawned

\* C5: a run ends with status 0 exactly when it reached Done, and with a
\* non-zero status on every fatal error, an interrupt among them.
\* (A KeyboardInterrupt raised inside a bare "except:" of check_tool or of a
\* find_* helper is dropped, and the run can go on to end with status 0.)
C5_ExitCodes ==
    ended => /\ (exit_code = 0) <=> (stage = "Done")
             /\ error.kind # None => exit_code # 0
             /\ interrupted => exit_code # 0

\* C6, as the code has it: CMake, Ninja and pnpm are reported available only
\* when a version probe located a path and ended with exit code 0; vcpkg is
\* reported available exactly when a root directory was located, and no
\* probe of it is run.
C6_ProbedToolsOnly ==
    results # <<>>
    => /\ (last_result.name # "vcpkg" /\ last_result.ok)
          => probe.name = last_result.name /\ probe.outcome = "ok"
       /\ last_result.name = "vcpkg"
          => /\ probe = [name |-> "vcpkg", outcome |-> None]
             /\ last_result.ok <=> VCPKG_ROOT # None

C6_Witness ==
    /\ results # <<>>
    /\ last_result = [name |-> "vcpkg", ok |-> TRUE]
    /\ probe.outcome = None
    /\ results[1] = [name |-> "CMake", ok |-> TRUE]

\* C6 as claimed: no required tool, vcpkg included, is reported available
\* unless a version probe of it located a path and ended with exit code 0.
C6_EveryToolProbed ==
    (results # <<>> /\ last_result.ok)
    => probe.name = last_result.name /\ probe.outcome = "ok"

\* C7: when a command run by run_command exits non-zero, in captured and in
\* streamed mode, run_command does not end the run: it prints a failure
\* report with the full argv and the exit code and returns (False, output)
\* to its caller.
C7_FailureIsReturned ==
    [][(step \in CommandSteps /\ Len(commands') > Len(commands)
        /\ commands'[Len(commands')].outcome = "fail")
       => /\ pc' = "spin_stop"
          /\ stage' = stage /\ exit_code' = exit_code /\ error' = error
          /\ ret'.success = FALSE
          /\ report'.printed
          /\ report'.cmd = commands'[Len(commands')].argv
          /\ report'.exit_code = commands'[Len(commands')].code
          /\ report'.exit_code # 0]_vars

C7_Witness ==
    /\ pc = "spin_stop"
    /\ step = "build"
    /\ VERBOSE
    /\ last_command.outcome = "fail"
    /\ ~ret.success
    /\ report.printed /\ report.cmd = <<"cmake", "--build", "--preset", "linux-prod">>
    /\ report.exit_code = 2
    /\ stage = "BuildingEngine"

\* C8: when the executable of a command does not exist, run_command reports
\* the not-found condition, with the executable name and no exit code, and
\* neither returns a failure to its caller nor prints a failure report.
C8_NotFoundIsDistinct ==
    [][(step \in CommandSteps /\ Len(commands') > Len(commands)
        /\ commands'[Len(commands')].outcome = "notfound")
       => /\ error' = [kind |-> "Command not found",
                       detail |-> commands'[Len(commands')].argv[1]]
          /\ report' = report
          /\ ret' = ret
          /\ pc' = "exiting"
          /\ exit_code' = ExitFailure]_vars

C8_Witness ==
    /\ commands # <<>>
    /\ last_command.outcome = "notfound"
    /\ step \in CommandSteps
    /\ error = [kind |-> "Command not found", detail |-> "ctest"]
    /\ ~report.printed

\* C9: for every valid current version (a, b, c), "major" yields (a+1, 0, 0),
\* "minor" yields (a, b+1, 0) and "patch" yields (a, b, c+1).
C9_KeywordBump ==
    \A a \in Components, b \in Components, c \in Components :
      (current_version = V(a, b, c) /\ new_version # NoText)
      => /\ args.bump_version = Major => new_version = V(a + 1, 0, 0)
         /\ args.bump_version = Minor => new_version = V(a, b + 1, 0)
         /\ args.bump_version = Patch => new_version = V(a, b, c + 1)

C9_Witness ==
    /\ args.bump_version = Minor
    /\ current_version = <<"0", ".", "9", ".", "9">>
    /\ new_version = <<"0", ".", "1", "0", ".", "0">>

\* C10: a bump whose target is a literal version X.Y.Z yields exactly that
\* text as the new version, whatever the current version is.
C10_LiteralBump ==
    (args.bump_version \in Literals /\ new_version # NoText)
    => new_version = args.bump_version

C10_Witness ==
    /\ args.bump_version = <<"9", ".", "9", ".", "9">>
    /\ current_version = <<"1", ".", "2", ".", "3">>
    /\ new_version = <<"9", ".", "9", ".", "9">>
    /\ pc = "write_cmake"

\* a strict X.Y.Z string: three groups of digits and two dots, nothing else
strict_xyz(t) == MatchXYZ(t) /\ t[Len(t)] # "\n"

\* C11: a bump whose target is neither a keyword nor a strict X.Y.Z string
\* fails with a parse error and writes nothing: the five files are unchanged
\* and the process ends with a non-zero status.
\* (parse_version validates the stripped target while bump_version writes the
\* target as given, and main takes an empty target for no target at all.)
C11_MalformedTargetRejected ==
    (args.bump_version # NoText /\ args.bump_version \notin Keywords
     /\ ~strict_xyz(args.bump_version))
    => /\ files = Project(1, 2, 3)
       /\ ended => exit_code # 0 /\ error.kind \in {"Invalid version format",
                                                     "KeyboardInterrupt"}

\* the version a bump of (a, b, c) to target is to give
expected_version(target, a, b, c) ==
    IF target = Major THEN V(a + 1, 0, 0)
    ELSE IF target = Minor THEN V(a, b + 1, 0)
    ELSE IF target = Patch THEN V(a, b, c + 1)
    ELSE target

\* C12: for every current version and every valid target, a dry run computes
\* the target version a real run computes (the one a real run writes to
\* VERSION), and no step of a dry run changes any of the five files.
C12_DryRun ==
    /\ [](\A a \in Components, b \in Components, c \in Components :
            (current_version = V(a, b, c) /\ new_version # NoText)
            => new_version = expected_version(args.bump_version, a, b, c))
    /\ []((~args.dry_run /\ pc = "write_cmake")
          => files.VERSION = new_version \o <<"\n">>)
    /\ [][args.dry_run => files' = files]_vars
    /\ []((args.dry_run /\ new_version # NoText /\ error.kind = None
           /\ pc \notin {"main", "bump"})
          => stage = "Done" /\ exit_code = 0)

C12_Witness ==
    /\ ended
    /\ args.dry_run
    /\ args.bump_version = Patch
    /\ files = Project(1, 1, 9)
    /\ new_version = <<"1", ".", "1", ".", "1", "0">>
    /\ stage = "Done"

\* C13: when --bump-version is supplied the bump short-circuits the rest of
\* the pipeline: no prerequisite check, no build stage and no test run is
\* started.
\* (main tests "if args.bump_version:", which an empty target does not pass.)
C13_BumpShortCircuits ==
    args.bump_version # NoText
    => /\ results = <<>>
       /\ commands = <<>>
       /\ ~spawned
       /\ step = None
       /\ stage \in {"Idle", "Done", "Failed"}

EngineSteps == {"clean", "configure", "build", "tests"}

AppSteps == {"install", "icons", "compile", "bundle", "copy", "package"}

outcomes_of(log) == [i \in 1..Len(log) |-> log[i].outcome]

some_missing == \E i \in 1..Len(results) : ~results[i].ok

\* C14: an engine-only, verbose, with-tests run in which every prerequisite
\* is there and every command succeeds goes CheckingPrerequisites ->
\* BuildingEngine -> CollectingArtifacts -> Done, never enters BuildingApp,
\* and ends with exactly one artifact, the engine binary.
EngineVerboseTests ==
    /\ ~bump_requested(args)
    /\ args.engine_only /\ args.verbose /\ args.tests
    /\ ~args.app_only /\ ~args.test_only

C14_EngineOnlyRun ==
    /\ [][EngineVerboseTests
          => \/ stage' = stage
             \/ stage' = "Failed"
             \/ <<stage, stage'>> \in {<<"Idle", "CheckingPrerequisites">>,
                                       <<"CheckingPrerequisites", "BuildingEngine">>,
                                       <<"BuildingEngine", "CollectingArtifacts">>,
                                       <<"CollectingArtifacts", "Done">>}]_vars
    /\ [](EngineVerboseTests => stage # "BuildingApp" /\ step \notin AppSteps)
    /\ []((EngineVerboseTests /\ stage = "Done")
          => /\ artifacts = <<"Engine">>
             /\ outcomes_of(commands) = <<"ok", "ok", "ok">>
             /\ commands[3].argv[1] = "ctest")
    /\ []((EngineVerboseTests /\ stage = "Failed")
          => \/ interrupted
             \/ some_missing
             \/ commands # <<>> /\ last_command.outcome # "ok"
             \/ error.kind \in {"Binary not found", "Exception", "Unsupported platform"})

C14_Witness ==
    /\ ended
    /\ EngineVerboseTests
    /\ system = "Linux"
    /\ stage = "Done"
    /\ artifacts = <<"Engine">>
    /\ Len(commands) = 3
    /\ ~interrupted

\* C15: a failing sub-stage (a command failing in configure, build, tests,
\* install, compile, bundle or package, or the binary missing after the build)
\* moves the pipeline to Failed: no command is run after a failed one, the
\* sub-stage under way stays the last one, no later stage is entered, and the
\* process ends with a non-zero status.
C15_FailureStopsTheRun ==
    /\ [](\A i \in 1..Len(commands) : commands[i].outcome # "ok" => i = Len(commands))
    /\ []((commands # <<>> /\ last_command.outcome = "fail")
          => /\ pc \in {"spin_stop", "spin_join", "exiting", "terminated"}
             /\ stage \notin {"CollectingArtifacts", "Done"}
             /\ pc \in {"exiting", "terminated"} => stage = "Failed" /\ exit_code # 0)
    /\ [][(commands # <<>> /\ last_command.outcome = "fail")
          => step' = step /\ commands' = commands /\ stage' \in {stage, "Failed"}]_vars
    /\ [](error.kind = "Binary not found"
          => /\ pc \in {"exiting", "terminated"}
             /\ stage = "Failed" /\ exit_code # 0
             /\ step = "build" /\ Len(commands) = 2)

C15_Witness ==
    /\ ended
    /\ commands # <<>>
    /\ step = "compile"
    /\ last_command.outcome = "fail"
    /\ Len(commands) >= 3
    /\ args.prod /\ ~args.dev
    /\ stage = "Failed"
    /\ exit_code = ExitFailure

\* C16: in the engine stage the sub-stages run in the order optional clean,
\* configure, build, verify, optional tests: a clean that is due comes before
\* configure, build only after configure succeeded, the verification only
\* after build succeeded, the tests only if asked for and the binary verified.
C16_EngineOrder ==
    /\ [][(step' # step /\ step' \in EngineSteps)
          => /\ step' = "clean"
                => pc = "engine" /\ args.clean /\ disk'.build_dir = "yes"
             /\ step' = "configure"
                => \/ step = "clean" /\ ret.success
                   \/ pc = "engine" /\ ~(args.clean /\ disk'.build_dir = "yes")
             /\ step' = "build"
                => /\ step = "configure" /\ ret.success
                   /\ last_command.outcome = "ok" /\ last_command.argv[2] = "--preset"
             /\ step' = "tests"
                => /\ pc = "verify" /\ step = "build"
                   /\ args.tests /\ engine_exists = "yes"]_vars
    /\ [](pc = "verify"
          => /\ step = "build" /\ ret.success
             /\ last_command.outcome = "ok" /\ last_command.argv[2] = "--build")
    /\ []((stage = "BuildingEngine" /\ commands # <<>>)
          => /\ commands[1].argv[2] = "--preset"
             /\ Len(commands) >= 2 => commands[2].argv[2] = "--build"
             /\ Len(commands) >= 3 => commands[3].argv[1] = "ctest" /\ args.tests
             /\ Len(commands) <= 3)

C16_Witness ==
    /\ pc = "body"
    /\ step = "tests"
    /\ args.clean /\ disk.build_dir = "yes"
    /\ Len(commands) = 2
    /\ engine_exists = "yes"

\* C17: with --app-only the engine stage is skipped entirely: no clean,
\* configure, build or test command; with --engine-only the app stage is
\* skipped entirely: no install, icon, compile, bundle, copy or package step.
C17_SkippedStages ==
    /\ (~bump_requested(args) /\ args.app_only)
       => /\ stage # "BuildingEngine"
          /\ step \notin EngineSteps
          /\ disk.build_dir = "?"
          /\ \A i \in 1..Len(commands) : commands[i].argv[1] \in {"pnpm", "/found/pnpm"}
    /\ (~bump_requested(args) /\ args.engine_only)
       => /\ stage # "BuildingApp"
          /\ step \notin AppSteps
          /\ disk.app_dir = "?" /\ disk.node_modules = "?"
          /\ \A i \in 1..Len(commands) : commands[i].argv[1] \in {"cmake", "/found/cmake",
                                                                  "ctest"}

C17_Witness ==
    /\ ended
    /\ args.engine_only /\ ~args.test_only
    /\ stage = "Done"
    /\ Len(commands) = 2
    /\ artifacts = <<"Engine">>

\* C18: the prerequisite stage checks every required tool before it looks at
\* the result: a tool that is missing does not stop the checks of the others,
\* and when any is missing the run goes from CheckingPrerequisites to Failed
\* after the whole table, and no command of a later stage is ever run.
required_tools == tools_of(args.engine_only \/ args.test_only) \o <<"vcpkg">>

C18_AllToolsChecked ==
    /\ [](\A i \in 1..Len(results) : results[i].name = required_tools[i])
    /\ [](pc = "prereq_report" => Len(results) = Len(required_tools))
    /\ [][(pc \in {"check_tool", "check_vcpkg"} /\ results' # results)
          => /\ Len(results') = Len(results) + 1
             /\ pc' = IF Len(results') = Len(required_tools) THEN "prereq_report"
                      ELSE IF Len(results') = Len(required_tools) - 1 THEN "check_vcpkg"
                      ELSE "check_tool"
             /\ stage' = "CheckingPrerequisites"]_vars
    /\ [](some_missing
          => commands = <<>> /\ stage \in {"CheckingPrerequisites", "Failed"})
    /\ [][(pc = "prereq_report" /\ some_missing /\ pc' # pc)
          => stage' = "Failed" /\ exit_code' # 0 /\ pc' = "exiting"]_vars
    /\ [](error.kind = "Missing prerequisites"
          => /\ Len(results) = Len(required_tools) /\ some_missing
             /\ stage = "Failed" /\ exit_code # 0)

C18_Witness ==
    /\ ended
    /\ error.kind = "Missing prerequisites"
    /\ results = <<[name |-> "CMake", ok |-> FALSE], [name |-> "Ninja", ok |-> TRUE],
                  [name |-> "pnpm", ok |-> FALSE], [name |-> "vcpkg", ok |-> TRUE]>>
    /\ commands = <<>>

\* C19: a test-only run bypasses the pipeline (no prerequisite check, no
\* configure or build command): it fails with the build-directory error when
\* the build directory is absent, otherwise with the tests-missing error when
\* the test binary is absent, and only when both are there runs the test
\* runner, once; the run succeeds exactly when the test runner exits 0.
TestOnlyRun ==
    /\ ~bump_requested(args)
    /\ args.test_only /\ ~args.tests /\ ~args.app_only
    /\ system # "Other"

C19_TestOnly ==
    TestOnlyRun
    => /\ results = <<>> /\ probe = NoProbe
       /\ stage \in {"Idle", "Done", "Failed"}
       /\ Len(commands) <= 1
       /\ disk.build_dir = "no"
          => error.kind = "Build directory not found" /\ commands = <<>>
             /\ stage = "Failed" /\ exit_code # 0
       /\ (disk.build_dir = "yes" /\ disk.test_binary = "no")
          => error.kind = "Tests not found" /\ commands = <<>>
             /\ stage = "Failed" /\ exit_code # 0
       /\ commands # <<>>
          => /\ disk.build_dir = "yes" /\ disk.test_binary = "yes"
             /\ commands[1].argv = <<"ctest", "--preset", preset_of(system, args),
                                     "--output-on-failure">>
       /\ stage = "Done" => commands # <<>> /\ commands[1].outcome = "ok"
       /\ (commands # <<>> /\ commands[1].outcome # "ok" /\ pc \in {"exiting", "terminated"})
          => stage = "Failed" /\ exit_code # 0
       /\ (commands # <<>> /\ commands[1].outcome = "ok" /\ ended /\ ~interrupted)
          => stage = "Done" /\ exit_code = 0

C19_Witness ==
    /\ ended
    /\ TestOnlyRun
    /\ ~VERBOSE
    /\ stage = "Done"
    /\ Len(commands) = 1
    /\ exit_code = 0

\* C20: in the app stage the dependencies are installed only if node_modules
\* is absent, then the icons are prepared, then the compile step runs; bundle,
\* copy of the engine binary and package run only in production mode, in that
\* order, the copy only if an engine binary is there; in development mode
\* the stage ends after the compile step.
production == args.prod /\ ~args.dev

binary_there == engine_binary # None /\ engine_exists = "yes"

C20_AppOrder ==
    /\ [][(step' # step /\ step' \in AppSteps)
          => /\ step' = "install" => pc = "app" /\ disk'.node_modules = "no"
             /\ step' = "icons"
                => \/ pc = "app" /\ disk'.node_modules = "yes"
                   \/ step = "install" /\ ret.success
             /\ step' = "compile" => step = "icons"
             /\ step' = "bundle" => step = "compile" /\ ret.success /\ production
             /\ step' = "copy"
                => step = "bundle" /\ ret.success /\ production /\ binary_there
             /\ step' = "package"
                => /\ production
                   /\ \/ step = "copy"
                      \/ step = "bundle" /\ ret.success /\ ~binary_there]_vars
    /\ [][(stage = "BuildingApp" /\ stage' = "CollectingArtifacts")
          => /\ ret.success
             /\ IF production THEN step = "package" ELSE step = "compile"]_vars
    /\ [](~production => step \notin {"bundle", "copy", "package"})

C20_Witness ==
    /\ pc = "body"
    /\ step = "package"
    /\ disk.node_modules = "no"
    /\ binary_there
    /\ Len(commands) = 5

(***************************************************************************)
(* The version bump, file by file.                                         *)
(***************************************************************************)
\* the positions of bump_version at which it rewrites its five targets, in
\* the order of the code
WritePcs == <<"write_VERSION", "write_cmake", "write_hpp", "write_vcpkg",
              "write_package", "bump_finish">>

\* the i-th target carries version v; an engine/CMakeLists.txt without a
\* version declaration carries none
target_has(i, v) ==
    CASE i = 1 -> files.VERSION = v \o <<"\n">>
      [] i = 2 -> files.cmake.declared \in {v, NoText}
      [] i = 3 -> /\ files.hpp.string = v
                  /\ <<files.hpp.major, files.hpp.minor, files.hpp.patch>>
                       = [j \in 1..3 |-> str(parse_version(v)[j])]
      [] i = 4 -> files.vcpkg.version = v
      [] i = 5 -> files.package.version = v

\* the first k targets carry the new version, the others the one they had
written(k) ==
    \A i \in 1..5 : target_has(i, IF i <= k THEN new_version ELSE current_version)

\* bump_version has computed and accepted a new version, and this is no dry run
real_bump ==
    /\ bump_requested(args) /\ ~args.dry_run
    /\ new_version # NoText /\ parse_ok(new_version)

C22_AllTargetsAgree ==
    (real_bump /\ pc = "terminated" /\ stage = "Done")
      => /\ files.VERSION = new_version \o <<"\n">>
         /\ files.cmake.declared = new_version
         /\ files.hpp.string = new_version
         /\ files.hpp.major \o <<".">> \o files.hpp.minor \o <<".">> \o files.hpp.patch
              = files.hpp.string
         /\ files.vcpkg.version = new_version
         /\ files.package.version = new_version

(***************************************************************************)
(* The progress indicator.                                                 *)
(***************************************************************************)
\* C23: start() and stop() are idempotent: stop() on an indicator that is not
\* running (never started, or stopped already) writes no final line and
\* changes nothing, and start() on a running indicator starts no second
\* thread.
C23_Idempotent ==
    [][pc = "api"
         => /\ (~spinner.running => spinner'.final = spinner.final)
            /\ (spinner.running => spinner'.extra = spinner.extra)]_vars

\* C24: the indicator never writes while a child process streams its output:
\* in verbose mode no redraw thread exists and no frame or final line is ever
\* written, so an indicator runs in captured mode only.
C24_NoIndicatorWhileStreaming ==
    /\ VERBOSE => /\ spinner.thread = "none" /\ ~spinner.running
                  /\ spinner.extra = 0 /\ spinner.orphans = 0
                  /\ spinner.idx = 0 /\ spinner.final = 0
    /\ (spinner.thread = "alive" \/ spinner.running) => ~VERBOSE /\ ~args.verbose

\* a verbose build whose streamed build command has ended, between the
\* start() and the stop() of its indicator
C24_Witness ==
    /\ VERBOSE
    /\ pc = "spin_stop"
    /\ step = "build"
    /\ commands # <<>>
    /\ last_command.outcome = "ok"
    /\ spinner.thread = "none"

C26_IndicatorStoppedAtExit ==
    pc \in {"exiting", "terminated"}
      => ~spinner.running /\ spinner.extra = 0 /\ spinner.orphans = 0

\* C27: an interrupt that arrives during the prerequisite check, the engine
\* stage, the app stage or the test-only run ends the run with the report
\* "Build interrupted" and a non-zero status, never with a stack unwind.
C27_InterruptReported ==
    (/\ interrupted
     /\ ~bump_requested(args)
     /\ pc \in {"exiting", "terminated"}
     /\ (step # None \/ results # <<>>))
      => /\ error.kind = "Build interrupted"
         /\ exit_code # 0
         /\ ~unwound

\* the lines of output o from its first to its last line that is not blank;
\* one blank line when all are blank
trimmed(o) ==
    LET solid == { i \in 1..Len(o) : o[i] # 0 }
    IN  IF o = <<>> THEN <<>>
        ELSE IF solid = {} THEN <<0>>
        ELSE SubSeq(o, CHOOSE i \in solid : \A j \in solid : i <= j,
                       CHOOSE i \in solid : \A j \in solid : i >= j)

\* the last lines of a sequence, at most TailLines of them
tail_of(lines) ==
    SubSeq(lines, Len(lines) - (IF Len(lines) > TailLines THEN TailLines ELSE Len(lines)) + 1,
           Len(lines))

\* C28: in captured mode the failure report of a command shows, of the lines
\* of its output that are left when leading and trailing white space is
\* stripped (n of them), exactly the last min(n, 25) in their order, and a
\* count n - 25 of hidden lines exactly when n > 25; the caller gets the output
\* whole; in streamed mode no output is shown.
C28_TailOfStrippedOutput ==
    (pc = "reported" /\ report.printed)
      => /\ ~ret.success
         /\ report.with_output = (~VERBOSE /\ ret.output # <<>>)
         /\ IF VERBOSE
            THEN ret.output = <<>> /\ report.shown = <<>> /\ report.more = 0
            ELSE LET lines == trimmed(ret.output)
                     n == Len(lines)
                 IN  /\ report.shown = tail_of(lines)
                     /\ report.more = (IF n > TailLines THEN n - TailLines ELSE 0)

\* an output of a blank line, TailLines + MaxExtraLines lines and a blank
\* line: the blank lines are dropped, the last TailLines lines shown and
\* MaxExtraLines lines counted as hidden
C28_Witness ==
    /\ pc = "reported"
    /\ ~VERBOSE
    /\ report.printed
    /\ ret.output = Blank(1) \o Lines(TailLines + MaxExtraLines) \o Blank(1)
    /\ Len(report.shown) = TailLines
    /\ report.shown[1] = MaxExtraLines + 1
    /\ report.more = MaxExtraLines

\* C28 as first stated: n counts the lines of the combined output as it is.
C28_TailOfOutput ==
    (pc = "reported" /\ report.printed)
      => IF VERBOSE
         THEN report.shown = <<>> /\ report.more = 0
         ELSE LET n == Len(ret.output)
              IN  /\ report.shown = tail_of(ret.output)
                  /\ report.more = (IF n > TailLines THEN n - TailLines ELSE 0)

\* C29: in a build whose prerequisite stage succeeded, every executable a
\* later stage invokes was shown to be there by a probe of that stage, so no
\* command of the engine or app stage ends as "command not found".
C29_NoCommandNotFound ==
    step # "test_only"
      => \A i \in 1..Len(commands) :
            /\ commands[i].outcome # "notfound"
            /\ \/ commands[i].argv[1] \in verified_exes(results, CMAKE_PATH, PNPM_PATH)
               \/ (commands[i].argv[1] = "pnpm" /\ system # "Windows"
                   /\ PNPM_PATH \in verified_exes(results, CMAKE_PATH, PNPM_PATH))

\* C30: in captured mode the main thread writes the failure report of a
\* command, or a fatal error message, only when no indicator thread is
\* running.
C30_ErrorsOutsideIndicator ==
    [][(~VERBOSE /\ (report' # report \/ (error' # error /\ ~unwound')))
         => ~(spinner.thread = "alive" /\ spinner.running)]_vars

(***************************************************************************)
(* The version bump applied again.                                         *)
(***************************************************************************)
\* the run before this one
previous == earlier[Len(earlier)]

\* the run before this one was a real bump that ended without error
bumped_before ==
    /\ earlier # <<>>
    /\ ~args.dry_run
    /\ previous.stage = "Done"

\* C31: a real bump to a literal version is idempotent: when it is applied
\* again after it went through, the second run accepts the version it reads
\* and none of its steps changes any of the five files; a keyword bump applied
\* again computes the bump of the version the first run wrote, a different
\* one, and on going through leaves the five files at the version bumped
\* twice.
C31_LiteralBumpIdempotent ==
    bumped_before
      => IF args.bump_version \notin Keywords
         THEN /\ files = previous.files
              /\ error.kind # "Invalid version format"
              /\ new_version \in {NoText, previous.to}
         ELSE LET t == parse_version(previous.from)
                  once == expected_version(args.bump_version, t[1], t[2], t[3])
                  u == parse_version(once)
                  twice == expected_version(args.bump_version, u[1], u[2], u[3])
              IN  /\ previous.to = once
                  /\ twice # once
                  /\ current_version \in {NoText, once}
                  /\ new_version \in {NoText, twice}
                  /\ (pc = "terminated" /\ stage = "Done")
                       => /\ files # previous.files
                          /\ written(5)
                          /\ new_version = twice

\* the bump to 9.9.9 went through twice, and the files are as the first run
\* left them
C31_Witness ==
    /\ bumped_before
    /\ args.bump_version = V(9, 9, 9)
    /\ previous.from = V(1, 2, 3)
    /\ pc = "terminated"
    /\ stage = "Done"
    /\ current_version = V(9, 9, 9)
    /\ files = previous.files
    /\ files.VERSION = V(9, 9, 9) \o <<"\n">>

====
